---- MODULE Spec2Model ----
(***************************************************************************)
(* Sentiment analysis API: the bulk dispatch strategy, the response        *)
(* parser with its fallback record, and the two POST endpoints that call   *)
(* them (src/sentiment_analyzer.py, src/main.py, src/models.py).           *)
(*                                                                         *)
(* The completion client is the environment: every llm.invoke is issued in *)
(* one step and answered in a later one, by a reply the environment picks. *)
(* Texts are abstracted: a message is a record of its identity (tag) and   *)
(* its character counts; a completion reply is a record of what the regex  *)
(* extraction and json.loads make of it.  confidence_score is kept in      *)
(* hundredths (90 is 0.90).                                                *)
(***************************************************************************)
EXTENDS Integers, Sequences, FiniteSets, TLC

\* ---------------------------------------------------------------- bounds
\* Number of deviations from the nominal scenario within one HTTP request
\* (an over-long message, a reply that is not the nominal one).
MaxOdd == 1

\* ------------------------------------------------------ program constants
SmallBatch == 8
MaxBatch == 15
MaxChars == 2000
EllipsisLen == 3

\* an Optional[str] field: None, or the string numbered v
None == [some |-> FALSE, v |-> 0]
Some(v) == [some |-> TRUE, v |-> v]
\* datetime.now().isoformat()
Now == Some(0 - 1)

\* --------------------------------------------------------------- helpers
RECURSIVE SubsetsUpTo(_, _)
SubsetsUpTo(S, k) ==
    IF k <= 0 THEN {{}}
    ELSE LET P == SubsetsUpTo(S, k - 1)
         IN  P \cup {p \cup {x} : p \in P, x \in S}

\* ------------------------------------------------------------- models.py
SentimentType == {"positive", "negative", "neutral"}

\* str.lower() on the strings the completion model is seen to use
Lower(s) ==
    CASE s = "POSITIVE" -> "positive"
      [] s = "Negative" -> "negative"
      [] s = "NEGATIVE" -> "negative"
      [] s = "Neutral"  -> "neutral"
      [] s = "LOW"      -> "low"
      [] s = "Medium"   -> "medium"
      [] s = "HIGH"     -> "high"
      [] s = "URGENT"   -> "urgent"
      [] OTHER          -> s

\* a text: tag names its content, len its length, trimmed its length after
\* str.strip(), cut says it is a 2000-character prefix followed by "..."
Text(tag, len, trimmed) ==
    [tag |-> tag, len |-> len, trimmed |-> trimmed, cut |-> FALSE]

MessageRequest(message, customer_id, agent_id, timestamp) ==
    [message |-> message, customer_id |-> customer_id,
     agent_id |-> agent_id, timestamp |-> timestamp]

\* a currency string: sym says it starts with the rupee sign, num says the
\* rest reads as a number, milli is that number in thousandths
Money(milli) == [sym |-> TRUE, num |-> TRUE, milli |-> milli]

\* ------------------------------------------ SentimentAnalyzer: fallback
\* a fallback that raises no alert and bars no template category
create_fallback_response_quiet(message, customer_id, agent_id, timestamp, error) ==
    [message |-> message,
     sentiment |-> "neutral",
     confidence_score |-> 0,
     reasoning |-> <<"Analysis error: ">> \o error,
     alert_level |-> "low",
     churn_probability |-> 50,
     revenue_risk |-> "at_risk",
     purchase_intent |-> 25,
     customer_value_tier |-> "medium_value",
     retention_action |-> "follow_up",
     cost_prediction |->
        [optimal_conversation_type |-> "service",
         predicted_cost |-> Money(0),
         cost_saved |-> Money(0),
         reasoning |-> "Fallback to safe service category due to analysis error"],
     response_prediction |->
        [success_probability |-> 50,
         best_response_time |-> "within_1_hour",
         escalation_probability |-> 30,
         resolution_likelihood |-> "medium"],
     template_recommendation |->
        [primary_category |-> "service",
         confidence |-> 60,
         cost_impact |-> Money(0),
         avoid_categories |-> <<>>,
         reasoning |-> "Safe fallback recommendation - use service category"],
     customer_id |-> customer_id,
     agent_id |-> agent_id,
     timestamp |-> timestamp]

create_fallback_response(message, customer_id, agent_id, timestamp, error) ==
    [message |-> message,
     sentiment |-> "neutral",
     confidence_score |-> 0,
     reasoning |-> <<"Analysis error: ">> \o error,
     alert_level |-> "medium",
     churn_probability |-> 50,
     revenue_risk |-> "at_risk",
     purchase_intent |-> 25,
     customer_value_tier |-> "medium_value",
     retention_action |-> "follow_up",
     cost_prediction |->
        [optimal_conversation_type |-> "service",
         predicted_cost |-> Money(0),
         cost_saved |-> Money(0),
         reasoning |-> "Fallback to safe service category due to analysis error"],
     response_prediction |->
        [success_probability |-> 50,
         best_response_time |-> "within_1_hour",
         escalation_probability |-> 30,
         resolution_likelihood |-> "medium"],
     template_recommendation |->
        [primary_category |-> "service",
         confidence |-> 60,
         cost_impact |-> Money(0),
         avoid_categories |-> <<"marketing">>,
         reasoning |-> "Safe fallback recommendation - use service category"],
     customer_id |-> customer_id,
     agent_id |-> agent_id,
     timestamp |-> timestamp]

\* ------------------------------------------------- completion replies
\* What the completion model may put in one JSON object of its reply.  src
\* and pos name the reply and the place in it the object stands at, so that
\* every object of a request is told apart by its reasoning field.
ElemKinds == {"ok", "neg", "urgent", "range", "badenum", "missing"}

NominalElem(src, pos) ==
    [shape |-> "dict",
     message_index |-> pos,
     sentiment |-> "positive",
     confidence_score |-> 90,
     reasoning |-> <<src, ToString(pos)>>,
     alert_level |-> "low",
     churn_probability |-> 10,
     revenue_risk |-> "safe",
     purchase_intent |-> 80,
     customer_value_tier |-> "high_value",
     retention_action |-> "none",
     cost_prediction |->
        [optimal_conversation_type |-> "marketing",
         predicted_cost |-> Money(880),
         cost_saved |-> Money(125),
         reasoning |-> "r"],
     response_prediction |->
        [success_probability |-> 70,
         best_response_time |-> "within_24_hours",
         escalation_probability |-> 5,
         resolution_likelihood |-> "high"],
     template_recommendation |->
        [primary_category |-> "marketing",
         confidence |-> 80,
         cost_impact |-> Money(880),
         avoid_categories |-> <<"authentication">>,
         reasoning |-> "r"]]

Elem(kind, src, pos) ==
    LET n == NominalElem(src, pos) IN
    CASE kind = "ok" -> n
      [] kind = "neg" ->
            [n EXCEPT !.message_index = 0,
                      !.sentiment = "NEGATIVE",
                      !.alert_level = "HIGH",
                      !.churn_probability = 85,
                      !.customer_value_tier = "low_value",
                      !.retention_action = "manager_call",
                      !.response_prediction.best_response_time = "immediate"]
      [] kind = "urgent" -> [n EXCEPT !.alert_level = "URGENT"]
      [] kind = "range" ->
            [n EXCEPT !.churn_probability = 150,
                      !.confidence_score = 150,
                      !.response_prediction.success_probability = 0 - 5]
      [] kind = "badenum" -> [n EXCEPT !.sentiment = "angry"]
      [] kind = "missing" -> [n EXCEPT !.shape = "missing"]
      [] kind = "scalar" -> [n EXCEPT !.shape = "scalar"]
      \* free text in fields the models declare as str: a tier of "vip", a
      \* cost_saved such as "0.50 approx" after the sign, "immediately"
      [] kind = "loose" ->
            [n EXCEPT !.customer_value_tier = "vip",
                      !.retention_action = "discount_offer",
                      !.cost_prediction.cost_saved =
                            [sym |-> TRUE, num |-> FALSE, milli |-> 500],
                      !.response_prediction.best_response_time = "immediately"]
      \* a cost_saved of "0.88" without the rupee sign
      [] kind = "bare" ->
            [n EXCEPT !.sentiment = "Neutral",
                      !.alert_level = "Medium",
                      !.churn_probability = 45,
                      !.customer_value_tier = "medium_value",
                      !.cost_prediction.cost_saved =
                            [sym |-> FALSE, num |-> TRUE, milli |-> 880],
                      !.template_recommendation.primary_category = "service"]

\* A completion: the client raised, or it returned a text that holds no
\* JSON ("text"), one JSON object ("object", items empty for {}), or a JSON
\* array of objects; prose says commentary surrounds the JSON.
Reply(kind, prose, items) == [kind |-> kind, prose |-> prose, items |-> items]

\* ------------------------------------------------------ response parser
\* re.search(r'\{.*\}') followed by json.loads, in analyze_message
json_loads_single(reply) ==
    CASE reply.kind = "text" -> [err |-> "JSONDecodeError", value |-> <<>>]
      [] reply.kind = "object" ->
            IF reply.items = <<>>
            THEN [err |-> "none", value |-> <<Elem("missing", "single", 0)>>]
            ELSE [err |-> "none", value |-> reply.items]
      [] reply.kind = "array" ->
            IF Len(reply.items) = 1
            THEN [err |-> "none", value |-> reply.items]
            ELSE IF Len(reply.items) = 0 /\ ~reply.prose
            THEN [err |-> "none", value |-> <<Elem("scalar", "single", 0)>>]
            ELSE [err |-> "JSONDecodeError", value |-> <<>>]

\* re.search(r'\[.*\]') followed by json.loads, in _analyze_bulk_optimized.
\* size is len(parsed_responses); value holds the list's items.  In a reply
\* that is one object the regex picks the avoid_categories list of strings;
\* {} has no bracket and is loaded as an empty dict, of len 0.
json_loads_bulk(reply) ==
    CASE reply.kind = "text" ->
            [err |-> "JSONDecodeError", size |-> 0, value |-> <<>>]
      [] reply.kind = "array" ->
            [err |-> "none", size |-> Len(reply.items), value |-> reply.items]
      [] reply.kind = "object" ->
            IF reply.items # <<>>
            THEN LET avoid == reply.items[1].template_recommendation.avoid_categories
                 IN  [err |-> "none", size |-> Len(avoid),
                      value |-> [k \in 1..Len(avoid) |-> Elem("scalar", "combined", 0)]]
            ELSE IF reply.prose
            THEN [err |-> "JSONDecodeError", size |-> 0, value |-> <<>>]
            ELSE [err |-> "none", size |-> 0, value |-> <<>>]

\* the construction taking a sentiment outside the enum as it stands
CoerceErrorLenient(e) ==
    IF e.shape = "scalar" THEN "TypeError"
    ELSE IF e.shape = "missing" THEN "KeyError"
    ELSE "none"

\* the exception the SentimentResponse(...) construction raises on a parsed
\* object, "none" if it raises none
CoerceError(e) ==
    IF e.shape = "scalar" THEN "TypeError"
    ELSE IF e.shape = "missing" THEN "KeyError"
    ELSE IF Lower(e.sentiment) \notin SentimentType THEN "ValueError"
    ELSE "none"

SentimentResponse(m, e) ==
    [message |-> m.message,
     sentiment |-> Lower(e.sentiment),
     confidence_score |-> e.confidence_score,
     reasoning |-> e.reasoning,
     alert_level |-> Lower(e.alert_level),
     churn_probability |-> e.churn_probability,
     revenue_risk |-> e.revenue_risk,
     purchase_intent |-> e.purchase_intent,
     customer_value_tier |-> e.customer_value_tier,
     retention_action |-> e.retention_action,
     cost_prediction |-> e.cost_prediction,
     response_prediction |-> e.response_prediction,
     template_recommendation |-> e.template_recommendation,
     customer_id |-> m.customer_id,
     agent_id |-> m.agent_id,
     timestamp |-> m.timestamp]

\* the exception analyze_message catches for this reply, "none" if none
SingleError(reply) ==
    IF reply.kind = "raise" THEN "ClientError"
    ELSE LET p == json_loads_single(reply) IN
         IF p.err # "none" THEN p.err ELSE CoerceError(p.value[1])

\* analyze_message building its fallback without the correlation fields
analyze_message_anonymous(m, reply) ==
    IF SingleError(reply) = "none"
    THEN SentimentResponse(m, json_loads_single(reply).value[1])
    ELSE create_fallback_response(m.message, None, None, None,
            <<"Analysis error: ", SingleError(reply)>>)

analyze_message(m, reply) ==
    IF SingleError(reply) = "none"
    THEN SentimentResponse(m, json_loads_single(reply).value[1])
    ELSE create_fallback_response(m.message, m.customer_id, m.agent_id,
            m.timestamp, <<"Analysis error: ", SingleError(reply)>>)

\* ----------------------------------------------------------- aggregator
AlertLevels == {"low", "medium", "high"}

\* alert_counts keyed by "low" and "high" only
SummaryErrorNoMedium(results) ==
    IF \E k \in 1..Len(results) : results[k].alert_level \notin {"low", "high"}
    THEN "KeyError"
    ELSE IF results = <<>> THEN "ZeroDivisionError"
    ELSE "none"

\* alert_counts[result.alert_level] += 1 raises KeyError on any other level;
\* the divisions by total_messages raise on an empty list
SummaryError(results) ==
    IF \E k \in 1..Len(results) : results[k].alert_level \notin AlertLevels
    THEN "KeyError"
    ELSE IF results = <<>> THEN "ZeroDivisionError"
    ELSE "none"

\* a quotient cut to the wanted decimals instead of rounded
TruncDiv(a, b) == a \div b

\* round(x, d) of a quotient a / b scaled to the wanted decimals: the nearest
\* integer to a / b.  A quotient exactly half way goes to the even neighbour
\* here; in the code it follows the binary float, so nothing stated below
\* depends on the direction of a tie.
RoundDiv(a, b) ==
    LET q == a \div b
        r == a % b
    IN  IF 2 * r < b THEN q
        ELSE IF 2 * r > b THEN q + 1
        ELSE IF q % 2 = 0 THEN q ELSE q + 1

RECURSIVE Sum(_)
Sum(s) == IF s = <<>> THEN 0 ELSE Head(s) + Sum(Tail(s))

\* the digits of the string taken for its amount whatever surrounds them
CostSavedDigits(c) == c.milli

\* float(cost_saved_text) after the rupee sign is replaced by "", inside
\* try / except: pass -- the amount in thousandths, 0 when float() raises
CostSaved(c) == IF c.num THEN c.milli ELSE 0

\* the rupee sign followed by {cost_optimization_savings:.2f}: two decimals,
\* so the thousandths are rounded to whole hundredths
FormatRupees(milli) == Money(RoundDiv(milli, 10) * 10)

\* "immediate" in r.response_prediction.best_response_time, a substring
\* test, over the values the field takes in this model
HasImmediate(t) == t \in {"immediate", "immediately", "not_immediate"}

\* the test without the "vip" tier
HighValueTierOnly(tier) == tier = "high_value"

\* result.customer_value_tier in ["high_value", "vip"]
HighValueTier(tier) == tier \in {"high_value", "vip"}

\* percentages are held in hundredths of a percent, the two averages of 0-100
\* scores and high_value_percentage in tenths, average_confidence in
\* hundredths
calculate_summary(results) ==
    LET idx == 1..Len(results)
        total == Len(results)
        sent(v) == Cardinality({k \in idx : results[k].sentiment = v})
        alert(v) == Cardinality({k \in idx : results[k].alert_level = v})
        high_value == Cardinality({k \in idx :
                HighValueTier(results[k].customer_value_tier)})
    IN  [total_messages |-> total,
         sentiment_counts |-> [v \in SentimentType |-> sent(v)],
         sentiment_distribution |->
            [v \in SentimentType |-> RoundDiv(sent(v) * 10000, total)],
         alert_distribution |-> [v \in AlertLevels |-> alert(v)],
         high_priority_count |-> alert("high"),
         average_confidence |->
            RoundDiv(Sum([k \in idx |-> results[k].confidence_score]), total),
         average_churn_risk |->
            RoundDiv(10 * Sum([k \in idx |-> results[k].churn_probability]), total),
         average_purchase_intent |->
            RoundDiv(10 * Sum([k \in idx |-> results[k].purchase_intent]), total),
         high_value_customers |-> high_value,
         high_value_percentage |-> RoundDiv(high_value * 1000, total),
         total_cost_savings |->
            FormatRupees(Sum([k \in idx |->
                CostSaved(results[k].cost_prediction.cost_saved)])),
         customers_needing_retention |->
            Cardinality({k \in idx : results[k].retention_action # "none"}),
         immediate_response_required |->
            Cardinality({k \in idx :
                HasImmediate(results[k].response_prediction.best_response_time)}),
         marketing_opportunities |->
            Cardinality({k \in idx :
                results[k].template_recommendation.primary_category = "marketing"}),
         service_required |->
            Cardinality({k \in idx :
                results[k].template_recommendation.primary_category = "service"})]

NoSummary ==
    [total_messages |-> 0,
     sentiment_counts |-> [v \in SentimentType |-> 0],
     sentiment_distribution |-> [v \in SentimentType |-> 0],
     alert_distribution |-> [v \in AlertLevels |-> 0],
     high_priority_count |-> 0,
     average_confidence |-> 0,
     average_churn_risk |-> 0,
     average_purchase_intent |-> 0,
     high_value_customers |-> 0,
     high_value_percentage |-> 0,
     total_cost_savings |-> Money(0),
     customers_needing_retention |-> 0,
     immediate_response_required |-> 0,
     marketing_opportunities |-> 0,
     service_required |-> 0]

\* ------------------------------------------------------- bulk dispatch
\* len(messages) <= 8 in analyze_bulk_messages
UseCombinedBelow(n) == n < SmallBatch
UseCombined(n) == n <= SmallBatch

\* messages[:15]
Limit(messages) ==
    IF Len(messages) > MaxBatch THEN SubSeq(messages, 1, MaxBatch) ELSE messages

\* the same loop without its else branch
CombinedResultsNoPad(messages, parsed) ==
    [k \in 1..(IF parsed.size < Len(messages) THEN parsed.size ELSE Len(messages)) |->
        SentimentResponse(messages[k], parsed.value[k])]

\* the same loop, pairing each message with the object that echoes its index
CombinedResultsByEcho(messages, parsed) ==
    [k \in 1..Len(messages) |->
        IF \E j \in 1..parsed.size : parsed.value[j].message_index = k
        THEN SentimentResponse(messages[k],
                parsed.value[CHOOSE j \in 1..parsed.size : parsed.value[j].message_index = k])
        ELSE create_fallback_response(messages[k].message,
                messages[k].customer_id, messages[k].agent_id,
                messages[k].timestamp, <<"Batch processing incomplete">>)]

\* the loop of _analyze_bulk_optimized over the parsed list
CombinedResults(messages, parsed) ==
    [k \in 1..Len(messages) |->
        IF k <= parsed.size
        THEN SentimentResponse(messages[k], parsed.value[k])
        ELSE create_fallback_response(messages[k].message,
                messages[k].customer_id, messages[k].agent_id,
                messages[k].timestamp, <<"Batch processing incomplete">>)]

\* the same try block, taking an array shorter than the batch for a failure
CombinedErrorOnShort(messages, reply) ==
    IF reply.kind = "raise" THEN "ClientError"
    ELSE LET p == json_loads_bulk(reply) IN
         IF p.err # "none" THEN p.err
         ELSE IF p.size < Len(messages) THEN "IndexError"
         ELSE IF \E k \in 1..Len(messages) : CoerceError(p.value[k]) # "none"
         THEN "CoerceError"
         ELSE SummaryError(CombinedResultsNoPad(messages, p))

\* the exception the try block of _analyze_bulk_optimized ends with, "none"
\* if it returns the summary
CombinedError(messages, reply) ==
    IF reply.kind = "raise" THEN "ClientError"
    ELSE LET p == json_loads_bulk(reply) IN
         IF p.err # "none" THEN p.err
         ELSE IF \E k \in 1..Len(messages) :
                    k <= p.size /\ CoerceError(p.value[k]) # "none"
         THEN "CoerceError"
         ELSE SummaryError(CombinedResults(messages, p))

\* the prompts handed to llm.invoke
BulkPrompt(messages) ==
    [prompt |-> "bulk", texts |-> [k \in 1..Len(messages) |-> messages[k].message]]
SinglePrompt(m) == [prompt |-> "single", texts |-> <<m.message>>]

\* ------------------------------------------------------------ main.py
\* the HTTPException the validation of analyze_bulk_sentiment raises, 0 if none
BulkValidation(req) ==
    IF Len(req) = 0 THEN 400
    ELSE IF Len(req) > MaxBatch THEN 400
    ELSE 0

\* the HTTPException the validation of analyze_sentiment raises, 0 if none
SingleValidation(m) ==
    IF m.message.len = 0 \/ m.message.trimmed = 0 THEN 400
    ELSE IF m.message.len > MaxChars THEN 400
    ELSE 0

\* "except Exception as e: raise HTTPException(status_code=500, ...)" around
\* the whole handler body: HTTPException is an Exception, so the handler's
\* own HTTPException(400) is caught here as well
ExceptHandler(raised) == 500

\* msg.message[:2000] alone
TruncateNoEllipsis(t) == [t EXCEPT !.len = MaxChars, !.cut = TRUE]

\* msg.message[:2000] + "..."
Truncate(t) == [t EXCEPT !.len = MaxChars + EllipsisLen, !.cut = TRUE]

\* what a handler's JSON body adds to the records: GET /health its status,
\* POST /aisensy/chat-analysis its alert fields
NoBody ==
    [status |-> "none", sentiment |-> "none", alert_required |-> FALSE,
     alert_level |-> "none"]

\* the exception analyze_message lets through to its caller: its
\* "except Exception as e" returns the fallback record for every one
Propagated(reply) == "none"

\* the body of GET /health: the try branch when analyze_message returned,
\* the except branch when it raised
health_check(test_result, raised) ==
    IF raised = "none"
    THEN [NoBody EXCEPT !.status = "healthy", !.sentiment = test_result.sentiment]
    ELSE [NoBody EXCEPT !.status = "unhealthy"]

\* request.message.strip().replace('\n', ' ').replace('\r', ' ')
Cleaned(t) == [t EXCEPT !.len = t.trimmed]

\* an alert for the high level only
AlertRequiredHighOnly(alert_level) == alert_level = "high"

\* result.alert_level in ["medium", "high"]
AlertRequired(alert_level) == alert_level \in {"medium", "high"}

\* the alert part of the body of POST /aisensy/chat-analysis
ChatBody(result) ==
    [NoBody EXCEPT !.sentiment = result.sentiment,
                   !.alert_required = AlertRequired(result.alert_level),
                   !.alert_level = result.alert_level]

\* "if not msg.timestamp": None stands for a timestamp that is absent or
\* the empty string
FillTimestamp(m) ==
    IF m.timestamp.some THEN m ELSE [m EXCEPT !.timestamp = Now]

\* the loop of analyze_bulk_sentiment over request.messages
Preprocess(req) ==
    [k \in 1..Len(req) |->
        LET m == FillTimestamp(req[k]) IN
        IF m.message.len > MaxChars
        THEN [m EXCEPT !.message = Truncate(m.message)]
        ELSE m]

\* ---------------------------------------------------------------- state
VARIABLES
    endpoint,   \* the endpoint handling the current HTTP request (main.py:47,81)
    request,    \* the request's messages as received (main.py:48,82)
    messages,   \* the messages handed to the analyzer (sentiment_analyzer.py:129,181)
    pc,         \* where the handler stands: idle, combined_wait (in the
                \* llm.invoke of line 211), individual_wait and single_wait
                \* (in the llm.invoke of line 138), done
    results,    \* the results list under construction (lines 222, 265)
    log,        \* the prompts handed to llm.invoke so far, in order
    replies,    \* the completions received so far, in order
    outcome,    \* how analyze_bulk_messages ended: none, returned, raised
    response,   \* the HTTP response (main.py:76-79, 111-117)
    odd         \* deviations from the nominal scenario so far

vars == <<endpoint, request, messages, pc, results, log, replies, outcome,
          response, odd>>

NoResponse ==
    [status |-> 0, results |-> <<>>, summary |-> NoSummary, body |-> NoBody]

Init ==
    /\ endpoint = "none"
    /\ request = <<>>
    /\ messages = <<>>
    /\ pc = "idle"
    /\ results = <<>>
    /\ log = <<>>
    /\ replies = <<>>
    /\ outcome = "none"
    /\ response = NoResponse
    /\ odd = 0

\* ------------------------------------------------------ the environment
\* a message within the limit (every fifth one exactly at it), with a
\* timestamp but for every fourth one
PlainMsg(k) ==
    MessageRequest(Text(k, IF k % 5 = 0 THEN MaxChars ELSE 10, 10),
                   Some(100 + k), None, IF k % 4 = 0 THEN None ELSE Some(k))
\* a message one character over the limit, every second one with a timestamp
LongMsg(k) ==
    MessageRequest(Text(k, MaxChars + 1, MaxChars + 1), None, Some(7),
                   IF k % 2 = 0 THEN Some(k) ELSE None)

OddElemKinds == ElemKinds \ {"ok"}

\* the arrays of at most n + 1 objects, with the number of deviations of each
ArrayReplies(n, budget) ==
    UNION {
      UNION {
        { [cost |-> Cardinality(S) + (IF L = n THEN 0 ELSE 1) + (IF prose THEN 1 ELSE 0),
           reply |-> Reply("array", prose,
                   [k \in 1..L |-> Elem(IF k \in S THEN f[k] ELSE "ok", "combined", k)])]
          : f \in [S -> OddElemKinds], prose \in BOOLEAN }
        : S \in SubsetsUpTo(1..L, budget) }
      : L \in 0..(n + 1) }

OtherReplies(src, pos) ==
    { [cost |-> 1, reply |-> Reply("raise", FALSE, <<>>)],
      [cost |-> 1, reply |-> Reply("text", FALSE, <<>>)],
      [cost |-> 1, reply |-> Reply("object", FALSE, <<>>)],
      [cost |-> 1, reply |-> Reply("object", TRUE, <<Elem("ok", src, pos)>>)] }

CombinedReplies(n, budget) ==
    {c \in ArrayReplies(n, budget) \cup OtherReplies("combined", 1) : c.cost <= budget}

SingleReplies(pos, budget) ==
    {c \in { [cost |-> IF kind = "ok" THEN 0 ELSE 1,
              reply |-> Reply("object", FALSE, <<Elem(kind, "single", pos)>>)]
             : kind \in ElemKinds } \cup OtherReplies("single", pos)
          \cup { [cost |-> 1, reply |-> Reply("array", FALSE, <<>>)] }
       : c.cost <= budget}

\* -------------------------------------------------------------- actions
\* the handler ends by raising HTTPException(status)
Respond(status) ==
    /\ response' = [NoResponse EXCEPT !.status = status]
    /\ pc' = "done"

\* POST /analyze-bulk up to the first llm.invoke: validation, pre-processing
\* and the mode selection of analyze_bulk_messages
analyze_bulk_sentiment(req, cost) ==
    /\ endpoint' = "analyze_bulk"
    /\ request' = req
    /\ odd' = cost
    /\ UNCHANGED <<results, replies, outcome>>
    /\ IF BulkValidation(req) # 0
       THEN /\ Respond(ExceptHandler(BulkValidation(req)))
            /\ UNCHANGED <<messages, log>>
       ELSE LET msgs == Limit(Preprocess(req)) IN
            /\ messages' = msgs
            /\ response' = response
            /\ IF UseCombined(Len(msgs))
               THEN /\ log' = <<BulkPrompt(msgs)>>
                    /\ pc' = "combined_wait"
               ELSE /\ log' = <<SinglePrompt(msgs[1])>>
                    /\ pc' = "individual_wait"

ReceiveBulk ==
    /\ pc = "idle"
    /\ \E n \in 0..(MaxBatch + 1) :
         \E S \in SubsetsUpTo(1..n, MaxOdd) :
            analyze_bulk_sentiment(
                [k \in 1..n |-> IF k \in S THEN LongMsg(k) ELSE PlainMsg(k)],
                Cardinality(S))

\* analyze_bulk_messages returns to analyze_bulk_sentiment
ReturnBulk(rs) ==
    /\ results' = rs
    /\ outcome' = "returned"
    /\ response' = [NoResponse EXCEPT !.status = 200, !.results = rs,
                                      !.summary = calculate_summary(rs)]
    /\ pc' = "done"

\* _analyze_bulk_optimized from the return of its llm.invoke on
analyze_bulk_optimized(reply) ==
    /\ replies' = Append(replies, reply)
    /\ IF CombinedError(messages, reply) = "none"
       THEN /\ ReturnBulk(CombinedResults(messages, json_loads_bulk(reply)))
            /\ log' = log
       ELSE \* except Exception: return self._analyze_bulk_individual(messages)
            /\ results' = <<>>
            /\ log' = Append(log, SinglePrompt(messages[1]))
            /\ pc' = "individual_wait"
            /\ UNCHANGED <<outcome, response>>

CombinedReply ==
    /\ pc = "combined_wait"
    /\ \E c \in CombinedReplies(Len(messages), MaxOdd - odd) :
         /\ odd' = odd + c.cost
         /\ analyze_bulk_optimized(c.reply)
    /\ UNCHANGED <<endpoint, request, messages>>

\* the loop asking again for a message whose request or parse failed,
\* instead of taking the fallback record
analyze_bulk_individual_retry(reply) ==
    LET k == Len(results) + 1
        rs == Append(results, analyze_message(messages[k], reply))
    IN
    /\ replies' = Append(replies, reply)
    /\ IF SingleError(reply) # "none"
       THEN /\ log' = Append(log, SinglePrompt(messages[k]))
            /\ UNCHANGED <<results, pc, outcome, response>>
       ELSE IF Len(rs) < Len(messages)
       THEN /\ results' = rs
            /\ log' = Append(log, SinglePrompt(messages[Len(rs) + 1]))
            /\ UNCHANGED <<pc, outcome, response>>
       ELSE /\ log' = log
            /\ IF SummaryError(rs) = "none"
               THEN ReturnBulk(rs)
               ELSE /\ results' = rs
                    /\ outcome' = "raised"
                    /\ Respond(ExceptHandler(0))

\* one turn of the loop of _analyze_bulk_individual, from the return of the
\* llm.invoke of analyze_message to the next llm.invoke or to the summary
analyze_bulk_individual(reply) ==
    LET rs == Append(results, analyze_message(messages[Len(results) + 1], reply)) IN
    /\ replies' = Append(replies, reply)
    /\ IF Len(rs) < Len(messages)
       THEN /\ results' = rs
            /\ log' = Append(log, SinglePrompt(messages[Len(rs) + 1]))
            /\ UNCHANGED <<pc, outcome, response>>
       ELSE /\ log' = log
            /\ IF SummaryError(rs) = "none"
               THEN ReturnBulk(rs)
               ELSE \* _calculate_summary raises out of analyze_bulk_messages
                    /\ results' = rs
                    /\ outcome' = "raised"
                    /\ Respond(ExceptHandler(0))

IndividualReply ==
    /\ pc = "individual_wait"
    /\ \E c \in SingleReplies(Len(results) + 1, MaxOdd - odd) :
         /\ odd' = odd + c.cost
         /\ analyze_bulk_individual(c.reply)
    /\ UNCHANGED <<endpoint, request, messages>>

\* POST /analyze-sentiment up to the llm.invoke of analyze_message
analyze_sentiment(m) ==
    /\ endpoint' = "analyze_sentiment"
    /\ request' = <<m>>
    /\ UNCHANGED <<results, replies, outcome, odd>>
    /\ IF SingleValidation(m) # 0
       THEN /\ Respond(ExceptHandler(SingleValidation(m)))
            /\ UNCHANGED <<messages, log>>
       ELSE /\ messages' = <<FillTimestamp(m)>>
            /\ log' = <<SinglePrompt(m)>>
            /\ pc' = "single_wait"
            /\ response' = response

SingleTexts ==
    { Text(1, 0, 0), Text(1, 4, 0), Text(1, 10, 10), Text(1, MaxChars - 1, 12),
      Text(1, MaxChars, MaxChars), Text(1, MaxChars + 1, MaxChars + 1),
      Text(1, MaxChars + 1, MaxChars - 1) }

ReceiveSingle ==
    /\ pc = "idle"
    /\ \E t \in SingleTexts, ts \in {None, Some(1)} :
         analyze_sentiment(MessageRequest(t, Some(101), None, ts))

\* analyze_message returns to analyze_sentiment, which returns the record
SingleReply ==
    /\ pc = "single_wait"
    /\ \E c \in SingleReplies(1, MaxOdd - odd) :
         LET r == analyze_message(messages[1], c.reply) IN
         /\ odd' = odd + c.cost
         /\ replies' = Append(replies, c.reply)
         /\ results' = <<r>>
         /\ response' = [NoResponse EXCEPT !.status = 200, !.results = <<r>>]
         /\ pc' = "done"
    /\ UNCHANGED <<endpoint, request, messages, log, outcome>>

\* GET /health up to the llm.invoke of analyze_message on the test message
HealthMessage == MessageRequest(Text(0, 46, 46), None, None, None)

ReceiveHealth ==
    /\ pc = "idle"
    /\ endpoint' = "health"
    /\ messages' = <<HealthMessage>>
    /\ log' = <<SinglePrompt(HealthMessage)>>
    /\ pc' = "health_wait"
    /\ UNCHANGED <<request, results, replies, outcome, response, odd>>

\* analyze_message returns to health_check
HealthReply ==
    /\ pc = "health_wait"
    /\ \E c \in SingleReplies(1, MaxOdd - odd) :
         LET r == analyze_message(messages[1], c.reply) IN
         /\ odd' = odd + c.cost
         /\ replies' = Append(replies, c.reply)
         /\ results' = <<r>>
         /\ response' = [NoResponse EXCEPT !.status = 200,
                !.body = health_check(r, Propagated(c.reply))]
         /\ pc' = "done"
    /\ UNCHANGED <<endpoint, request, messages, log, outcome>>

\* POST /aisensy/chat-analysis up to the llm.invoke of analyze_message
aisensy_chat_analysis(m) ==
    LET cleaned_message ==
            IF Cleaned(m.message).len > MaxChars
            THEN Truncate(Cleaned(m.message)) ELSE Cleaned(m.message)
    IN  /\ endpoint' = "aisensy_chat_analysis"
        /\ request' = <<m>>
        /\ UNCHANGED <<results, replies, outcome, odd>>
        /\ IF cleaned_message.len = 0
           THEN /\ Respond(ExceptHandler(400))
                /\ UNCHANGED <<messages, log>>
           ELSE /\ messages' = <<[m EXCEPT !.message = cleaned_message]>>
                /\ log' = <<SinglePrompt([m EXCEPT !.message = cleaned_message])>>
                /\ pc' = "chat_wait"
                /\ response' = response

ReceiveChat ==
    /\ pc = "idle"
    /\ \E t \in SingleTexts, ts \in {None, Some(1)} :
         aisensy_chat_analysis(MessageRequest(t, Some(101), Some(7), ts))

\* analyze_message returns to aisensy_chat_analysis, which builds its body
ChatReply ==
    /\ pc = "chat_wait"
    /\ \E c \in SingleReplies(1, MaxOdd - odd) :
         LET r == analyze_message(messages[1], c.reply) IN
         /\ odd' = odd + c.cost
         /\ replies' = Append(replies, c.reply)
         /\ results' = <<r>>
         /\ response' = [NoResponse EXCEPT !.status = 200, !.results = <<r>>,
                                           !.body = ChatBody(r)]
         /\ pc' = "done"
    /\ UNCHANGED <<endpoint, request, messages, log, outcome>>

\* the response is sent; the next request starts from a clean slate (the
\* analyzer keeps no state between requests)
NextRequest ==
    /\ pc = "done"
    /\ endpoint' = "none"
    /\ request' = <<>>
    /\ messages' = <<>>
    /\ pc' = "idle"
    /\ results' = <<>>
    /\ log' = <<>>
    /\ replies' = <<>>
    /\ outcome' = "none"
    /\ response' = NoResponse
    /\ odd' = 0

Next ==
    \/ ReceiveBulk
    \/ CombinedReply
    \/ IndividualReply
    \/ ReceiveSingle
    \/ SingleReply
    \/ ReceiveHealth
    \/ HealthReply
    \/ ReceiveChat
    \/ ChatReply
    \/ NextRequest

Spec == Init /\ [][Next]_vars

\* self.llm.invoke(...) of the bulk dispatch comes back: the completion
\* client returns its text or raises, which adds one reply to those the
\* request has received.  This is the client's half of CombinedReply and of
\* IndividualReply: a step of Spec adds a reply while the bulk handler waits
\* exactly when it is one of the two.
llm_invoke_returns ==
    \/ /\ pc = "combined_wait"
       /\ \E c \in CombinedReplies(Len(messages), MaxOdd - odd) :
             replies' = Append(replies, c.reply)
    \/ /\ pc = "individual_wait"
       /\ \E c \in SingleReplies(Len(results) + 1, MaxOdd - odd) :
             replies' = Append(replies, c.reply)

\* llm.invoke is a blocking call and the handler goes on as soon as it is
\* back.  The assumption that every completion request eventually returns or
\* raises is weak fairness of that return.
LiveSpec == Spec /\ WF_replies(llm_invoke_returns)

\* ---------------------------------------------------------- properties
Bulk == endpoint = "analyze_bulk"
N == Len(messages)

\* the request was dispatched in combined mode: its first prompt is the bulk one
Combined == Bulk /\ log # <<>> /\ log[1].prompt = "bulk"

FallbackFor(m, error) ==
    create_fallback_response(m.message, m.customer_id, m.agent_id, m.timestamp, error)

\* r is a fallback record for message m, whatever the error it records
IsFallbackFor(r, m) ==
    /\ [r EXCEPT !.reasoning = <<>>] = [FallbackFor(m, <<>>) EXCEPT !.reasoning = <<>>]
    /\ r.reasoning # <<>>
    /\ r.reasoning[1] = "Analysis error: "

\* C1: whenever analyze_bulk_messages returns, its results list has one entry
\* per message handed to it, and the i-th entry carries the message,
\* customer_id, agent_id and timestamp of the i-th message, whatever the
\* completion client did.
C1_OneResultPerMessage ==
    outcome = "returned" =>
        /\ N \in 1..MaxBatch
        /\ Len(response.results) = N
        /\ \A i \in 1..N :
              /\ response.results[i].message = messages[i].message
              /\ response.results[i].customer_id = messages[i].customer_id
              /\ response.results[i].agent_id = messages[i].agent_id
              /\ response.results[i].timestamp = messages[i].timestamp

\* a batch of several messages answered by an array one object too long
C1_Witness ==
    /\ outcome = "returned"
    /\ N >= 2
    /\ replies[1].kind = "array"
    /\ Len(replies[1].items) = N + 1

\* C2: for N <= 8 the first completion request is the combined one, carrying
\* all N messages (so no per-message request precedes it); for N > 8 no
\* combined request is ever issued and, when the dispatch has ended, exactly
\* N per-message requests have been issued, one for each message in turn.
C2_ModeBySize ==
    (Bulk /\ N >= 1) =>
        IF N <= SmallBatch
        THEN log # <<>> /\ log[1] = BulkPrompt(messages)
        ELSE /\ \A k \in 1..Len(log) : log[k].prompt = "single"
             /\ Len(log) <= N
             /\ pc = "done" =>
                   /\ Len(log) = N
                   /\ \A k \in 1..N : log[k] = SinglePrompt(messages[k])

\* a batch of exactly 8 messages, served by its combined request alone
C2_Witness ==
    /\ Bulk
    /\ N = SmallBatch
    /\ pc = "done"
    /\ Len(log) = 1
    /\ log[1].prompt = "bulk"

\* an object of the reply that conforms to the record schema as far as the
\* analyzer reads it: it has the required keys, its sentiment is a member of
\* SentimentType and its alert level one of low, medium, high (any case)
WellFormed(e) ==
    /\ e.shape = "dict"
    /\ Lower(e.sentiment) \in {"positive", "negative", "neutral"}
    /\ Lower(e.alert_level) \in {"low", "medium", "high"}

\* the record the schema coercion makes of object e for message m
RecordOf(m, e) ==
    [message |-> m.message, customer_id |-> m.customer_id,
     agent_id |-> m.agent_id, timestamp |-> m.timestamp,
     sentiment |-> Lower(e.sentiment), confidence_score |-> e.confidence_score,
     reasoning |-> e.reasoning, alert_level |-> Lower(e.alert_level),
     churn_probability |-> e.churn_probability, revenue_risk |-> e.revenue_risk,
     purchase_intent |-> e.purchase_intent,
     customer_value_tier |-> e.customer_value_tier,
     retention_action |-> e.retention_action,
     cost_prediction |-> e.cost_prediction,
     response_prediction |-> e.response_prediction,
     template_recommendation |-> e.template_recommendation]

\* combined mode failed in the sense of the claim: the client raised, the
\* reply is no JSON array, or one of the first N objects does not coerce
ClaimedCombinedFailure ==
    /\ Combined
    /\ replies # <<>>
    /\ \/ replies[1].kind # "array"
       \/ \E k \in 1..Len(replies[1].items) :
            k <= N /\ CoerceError(replies[1].items[k]) # "none"

\* C3: when combined mode fails, the whole batch is retried in individual
\* mode: by the end of the dispatch one per-message request has been issued
\* for each of the N messages, the N final results are those of the
\* per-message replies, and none of them is built from the combined reply.
C3_FailureRetriesWholeBatch ==
    (ClaimedCombinedFailure /\ pc = "done") =>
        /\ Len(log) = N + 1
        /\ \A k \in 1..N : log[k + 1] = SinglePrompt(messages[k])
        /\ Len(results) = N
        /\ \A k \in 1..N : results[k] = analyze_message(messages[k], replies[k + 1])
        /\ \A k \in 1..N : results[k].reasoning[1] # "combined"

\* C4: in combined mode, when the reply is an array of k < N well-formed
\* objects (k = 0 included), results 1..k are built from objects 1..k, results
\* k+1..N are fallback records for their own messages ("Batch processing
\* incomplete"), and no further completion request is issued.  An object
\* whose alert level is outside low/medium/high is not well-formed.
C4_ShortArrayPadded ==
    ( /\ Combined
      /\ replies # <<>>
      /\ replies[1].kind = "array"
      /\ Len(replies[1].items) < N
      /\ \A k \in 1..Len(replies[1].items) : WellFormed(replies[1].items[k]) )
    =>  /\ pc = "done"
        /\ outcome = "returned"
        /\ Len(log) = 1
        /\ Len(response.results) = N
        /\ \A i \in 1..N :
              IF i <= Len(replies[1].items)
              THEN response.results[i] = RecordOf(messages[i], replies[1].items[i])
              ELSE response.results[i] =
                      FallbackFor(messages[i], <<"Batch processing incomplete">>)

\* a batch of three messages answered by an array of one object
C4_Witness ==
    /\ Combined
    /\ pc = "done"
    /\ N = 3
    /\ replies[1].kind = "array"
    /\ Len(replies[1].items) = 1
    /\ IsFallbackFor(response.results[3], messages[3])

\* C5: in combined mode (N <= 8), when the reply is an array of N well-formed
\* objects, exactly one completion request is issued and N results are
\* returned in input order, none a fallback record, result i being built
\* from object i whatever message_index that object echoes.
C5_FullArrayByPosition ==
    ( /\ Combined
      /\ replies # <<>>
      /\ replies[1].kind = "array"
      /\ Len(replies[1].items) = N
      /\ \A k \in 1..N : WellFormed(replies[1].items[k]) )
    =>  /\ N <= SmallBatch
        /\ pc = "done"
        /\ outcome = "returned"
        /\ Len(log) = 1
        /\ Len(response.results) = N
        /\ \A i \in 1..N :
              /\ response.results[i] = RecordOf(messages[i], replies[1].items[i])
              /\ ~IsFallbackFor(response.results[i], messages[i])

\* a full array whose second object echoes another index than 2
C5_Witness ==
    /\ Combined
    /\ pc = "done"
    /\ N >= 2
    /\ replies[1].kind = "array"
    /\ Len(replies[1].items) = N
    /\ replies[1].items[2].message_index # 2
    /\ outcome = "returned"

\* the position in replies of the reply to the per-message request of message k
ReplyAt(k) == IF Combined THEN k + 1 ELSE k

\* the request or the parse of this reply fails
SingleFails(reply) ==
    \/ reply.kind \in {"raise", "text"}
    \/ reply.kind = "array"
    \/ reply.items = <<>>
    \/ reply.items[1].shape # "dict"
    \/ Lower(reply.items[1].sentiment) \notin {"positive", "negative", "neutral"}

\* the bulk dispatch is in individual mode
Individual == Bulk /\ log # <<>> /\ log[Len(log)].prompt = "single"

\* C6: in individual mode, a result whose request or parse failed is a
\* fallback record for its own message; every other result is the record
\* made of its own message and its own reply alone, so it is what it would
\* have been had the failing message succeeded; and the request of every
\* message after a failure is still issued, in input order.
C6_FailureIsolated ==
    Individual =>
        /\ \A j \in 1..Len(results) :
              IF SingleFails(replies[ReplyAt(j)])
              THEN IsFallbackFor(results[j], messages[j])
              ELSE results[j] = RecordOf(messages[j], replies[ReplyAt(j)].items[1])
        /\ \A j \in 1..N :
              (j <= Len(results) + 1) => log[ReplyAt(j)] = SinglePrompt(messages[j])
        /\ pc = "done" => Len(results) = N

\* a batch in individual mode whose third request failed and whose later
\* messages were analysed all the same
C6_Witness ==
    /\ Individual
    /\ pc = "done"
    /\ N > SmallBatch
    /\ replies[3].kind = "raise"
    /\ IsFallbackFor(results[3], messages[3])
    /\ ~IsFallbackFor(results[N], messages[N])

\* C7: a parse or schema error on a reply never propagates to the caller:
\* every bulk request that passed validation ends with analyze_bulk_messages
\* returning its results and summary (status 200), and every single-message
\* request that passed validation ends with a record, whatever field values
\* the replies carry (an alert_level outside low/medium/high included).
C7_ParseErrorsNeverPropagate ==
    pc = "done" =>
        /\ (Bulk /\ BulkValidation(request) = 0) =>
              (outcome = "returned" /\ response.status = 200)
        /\ (endpoint = "analyze_sentiment" /\ SingleValidation(request[1]) = 0) =>
              (response.status = 200 /\ Len(response.results) = 1)

Percent == 0..100

\* the numeric fields of record r lie in their declared ranges
\* (confidence_score is in hundredths)
InRange(r) ==
    /\ r.churn_probability \in Percent
    /\ r.purchase_intent \in Percent
    /\ r.response_prediction.success_probability \in Percent
    /\ r.response_prediction.escalation_probability \in Percent
    /\ r.template_recommendation.confidence \in Percent
    /\ r.confidence_score \in Percent

\* C8: every record returned by the single-message path or by the bulk
\* dispatch has its probabilities in 0..100 and its confidence score in
\* [0,1]; a reply carrying an out-of-range value yields the fallback record.
C8_ProbabilitiesInRange ==
    /\ \A i \in 1..Len(response.results) : InRange(response.results[i])
    /\ ( /\ endpoint = "analyze_sentiment"
         /\ pc = "done"
         /\ replies # <<>>
         /\ replies[1].kind = "object"
         /\ replies[1].items # <<>>
         /\ replies[1].items[1].churn_probability \notin Percent )
       => IsFallbackFor(response.results[1], messages[1])

\* C9: POST /analyze-sentiment answers 400, without any completion request,
\* when the message is empty after trimming or longer than 2000 characters,
\* and does not answer 400 otherwise (a non-empty message of 2000 characters).
C9_SingleMessageLimits ==
    (endpoint = "analyze_sentiment" /\ pc = "done") =>
        IF request[1].message.trimmed = 0 \/ request[1].message.len > MaxChars
        THEN response.status = 400 /\ log = <<>>
        ELSE response.status # 400

\* C10: POST /analyze-bulk answers 400, without any completion request, when
\* the messages array is empty or has more than 15 entries; an array of 15
\* entries is accepted and dispatched.
C10_BulkLimits ==
    Bulk =>
        IF Len(request) = 0 \/ Len(request) > MaxBatch
        THEN pc = "done" /\ response.status = 400 /\ log = <<>>
        ELSE log # <<>> /\ response.status # 400

\* ------------------------------------------------ single-message handlers
Health == endpoint = "health" /\ pc = "done"

\* C11: GET /health reports "unhealthy" whenever the completion request for
\* its test message failed (the completion client raised), and "healthy"
\* only when that round trip gave an analysis.
C11_HealthReflectsRoundTrip ==
    Health =>
        /\ replies[1].kind = "raise" => response.body.status = "unhealthy"
        /\ response.body.status = "healthy" => ~SingleFails(replies[1])

\* a single-message endpoint has answered a request it sent to the analyzer
SingleAnswered ==
    /\ endpoint \in {"analyze_sentiment", "aisensy_chat_analysis"}
    /\ pc = "done"
    /\ replies # <<>>

\* C12: on POST /analyze-sentiment and POST /aisensy/chat-analysis a failure
\* to obtain or parse the analysis of the message fails the request: the
\* answer is not a successful response carrying a fallback record.
C12_SingleFailureFailsRequest ==
    (SingleAnswered /\ SingleFails(replies[1])) =>
        ~(response.status = 200 /\ IsFallbackFor(response.results[1], messages[1]))

\* C12 as the code has it: on POST /analyze-sentiment and POST
\* /aisensy/chat-analysis a failure to obtain or parse the analysis of the
\* message does not fail the request; the request is answered 200 and
\* carries the fallback record of that message.
C12_SingleFailureAnswersFallback ==
    (SingleAnswered /\ SingleFails(replies[1])) =>
        /\ response.status = 200
        /\ Len(response.results) = 1
        /\ IsFallbackFor(response.results[1], messages[1])

C12_Witness ==
    /\ SingleAnswered
    /\ endpoint = "aisensy_chat_analysis"
    /\ replies[1].kind = "object"
    /\ replies[1].items # <<>>
    /\ replies[1].items[1].sentiment = "angry"
    /\ response.status = 200

\* ------------------------------------------------------ fallback records
\* the values the fallback record is documented to carry
FallbackValues(r) ==
    /\ r.sentiment = "neutral"
    /\ r.confidence_score = 0
    /\ r.alert_level = "medium"
    /\ r.churn_probability = 50
    /\ r.revenue_risk = "at_risk"
    /\ r.purchase_intent = 25
    /\ r.customer_value_tier = "medium_value"
    /\ r.retention_action = "follow_up"
    /\ r.cost_prediction.optimal_conversation_type = "service"
    /\ r.cost_prediction.cost_saved = [sym |-> TRUE, num |-> TRUE, milli |-> 0]
    /\ r.response_prediction.best_response_time = "within_1_hour"
    /\ r.template_recommendation.primary_category = "service"
    /\ \E i \in 1..Len(r.template_recommendation.avoid_categories) :
          r.template_recommendation.avoid_categories[i] = "marketing"

CarriesInput(r, m) ==
    /\ r.message = m.message
    /\ r.customer_id = m.customer_id
    /\ r.agent_id = m.agent_id
    /\ r.timestamp = m.timestamp

NamesCause(r, cause) == \E i \in 1..Len(r.reasoning) : r.reasoning[i] = cause

\* the request ended in the combined mode: one prompt, and results returned
EndedCombined == Combined /\ Len(log) = 1 /\ outcome = "returned"

SingleMessage == endpoint \in {"analyze_sentiment", "aisensy_chat_analysis", "health"}

\* result k was produced by the fallback path ("none": it was not), and the
\* cause that path was given
FallbackCause(k) ==
    IF SingleMessage
    THEN IF SingleFails(replies[1]) THEN SingleError(replies[1]) ELSE "none"
    ELSE IF EndedCombined
    THEN IF k > json_loads_bulk(replies[1]).size
         THEN "Batch processing incomplete" ELSE "none"
    ELSE IF Individual /\ SingleFails(replies[ReplyAt(k)])
    THEN SingleError(replies[ReplyAt(k)])
    ELSE "none"

\* C13: every fallback record, whatever error caused it and whichever path
\* produced it (single-message path, padding of a short combined array,
\* individual mode), carries the documented fallback values, carries the
\* message, customer_id, agent_id and timestamp of its own input unchanged,
\* and names the cause of the error in its reasoning field.
C13_FallbackRecordFixed ==
    \A k \in 1..Len(results) :
        FallbackCause(k) # "none" =>
            /\ FallbackValues(results[k])
            /\ CarriesInput(results[k], messages[k])
            /\ NamesCause(results[k], FallbackCause(k))

\* a batch whose combined reply held one object for three messages: the
\* third result is a padding fallback
C13_Witness ==
    /\ EndedCombined
    /\ N = 3
    /\ replies[1].kind = "array"
    /\ Len(replies[1].items) = 1
    /\ FallbackCause(3) = "Batch processing incomplete"
    /\ FallbackValues(results[3])
    /\ results[3].customer_id = request[3].customer_id

\* ---------------------------------------------- the aggregator on its own
\* _calculate_summary applied to lists of records the analyzer can build: the
\* records made from a completion object of each kind for one message, and
\* the fallback record of that message.
MaxAggLen == 4

AggMessage == MessageRequest(Text(1, 10, 10), Some(101), None, Some(1))

AggRecords ==
    { SentimentResponse(AggMessage, Elem(kind, "single", 1))
        : kind \in {"ok", "neg", "urgent", "loose", "bare"} }
    \cup { create_fallback_response(AggMessage.message, AggMessage.customer_id,
                AggMessage.agent_id, AggMessage.timestamp,
                <<"Analysis error: ", "ClientError">>) }

InitAgg ==
    /\ endpoint = "calculate_summary"
    /\ request = <<>>
    /\ messages = <<>>
    /\ pc = "collect"
    /\ results = <<>>
    /\ log = <<>>
    /\ replies = <<>>
    /\ outcome = "none"
    /\ response = NoResponse
    /\ odd = 0

\* one more record is appended to the list the aggregator will be given
Collect ==
    /\ pc = "collect"
    /\ Len(results) < MaxAggLen
    /\ \E r \in AggRecords : results' = Append(results, r)
    /\ UNCHANGED <<endpoint, request, messages, pc, log, replies, outcome,
                   response, odd>>

\* _calculate_summary(results): it returns {"results", "summary"} or raises
Summarize ==
    /\ pc = "collect"
    /\ results # <<>>
    /\ pc' = "done"
    /\ IF SummaryError(results) = "none"
       THEN /\ outcome' = "returned"
            /\ response' = [NoResponse EXCEPT !.status = 200,
                    !.results = results, !.summary = calculate_summary(results)]
       ELSE /\ outcome' = "raised"
            /\ response' = response
    /\ UNCHANGED <<endpoint, request, messages, results, log, replies, odd>>

NextAgg ==
    \/ Collect
    \/ Summarize

SpecAgg == InitAgg /\ [][NextAgg]_vars

\* the aggregator returned a summary of the N results it was given
Summarized == pc = "done" /\ outcome = "returned" /\ response.status = 200

summary == response.summary

\* v, held in units of 1/scale, is 100 * count / n rounded to the nearest unit
IsPercentOf(v, count, n, scale) ==
    LET d == v * n - 100 * scale * count IN
    2 * d <= n /\ 2 * (0 - d) <= n

\* C14: for every non-empty list of N results the aggregator summarises, its
\* three sentiment counts are the numbers of results of each sentiment and
\* sum to N, its three alert-level counts sum to N, each sentiment
\* percentage is 100 * count / N rounded to 2 decimals, and the three
\* percentages sum to 100 within 0.1.
C14_CountsAndPercentages ==
    Summarized =>
        LET n == Len(response.results)
            count(v) == Cardinality({k \in 1..n : response.results[k].sentiment = v})
            pct == summary.sentiment_distribution
            total == pct["positive"] + pct["negative"] + pct["neutral"]
        IN  /\ n >= 1
            /\ summary.total_messages = n
            /\ \A v \in SentimentType : summary.sentiment_counts[v] = count(v)
            /\ count("positive") + count("negative") + count("neutral") = n
            /\ summary.alert_distribution["low"] + summary.alert_distribution["medium"]
                + summary.alert_distribution["high"] = n
            /\ \A v \in SentimentType : IsPercentOf(pct[v], count(v), n, 100)
            /\ total >= 10000 - 10
            /\ total <= 10000 + 10

\* three results, two positive and one negative: 66.67, 33.33 and 0
C14_Witness ==
    /\ Summarized
    /\ endpoint = "calculate_summary"
    /\ summary.total_messages = 3
    /\ summary.sentiment_counts["positive"] = 2
    /\ summary.sentiment_distribution["positive"] = 6667
    /\ summary.sentiment_distribution["negative"] = 3333

\* C15: for every non-empty list of N results the aggregator summarises,
\* high_value_customers is the number of results whose customer_value_tier
\* is high_value or vip, and high_value_percentage is
\* 100 * high_value_customers / N rounded to 1 decimal, so it lies in 0..100.
C15_HighValueShare ==
    Summarized =>
        LET n == Len(response.results)
            hv == Cardinality({k \in 1..n :
                    \/ response.results[k].customer_value_tier = "high_value"
                    \/ response.results[k].customer_value_tier = "vip"})
        IN  /\ summary.high_value_customers = hv
            /\ IsPercentOf(summary.high_value_percentage, hv, n, 10)
            /\ summary.high_value_percentage >= 0
            /\ summary.high_value_percentage <= 1000

\* three results, one of tier vip and one of tier high_value: 66.7
C15_Witness ==
    /\ Summarized
    /\ endpoint = "calculate_summary"
    /\ Len(response.results) = 3
    /\ \E k \in 1..3 : response.results[k].customer_value_tier = "vip"
    /\ summary.high_value_customers = 2
    /\ summary.high_value_percentage = 667

\* the aggregator was given fallback records only, and has ended
OnlyFallbacks ==
    /\ endpoint = "calculate_summary"
    /\ pc = "done"
    /\ \A k \in 1..Len(results) : FallbackValues(results[k])

\* C16: the aggregator applied to a non-empty list made only of fallback
\* records does not raise, and for 3 fallback records it yields
\* positive_percentage 0, negative_percentage 0, neutral_percentage 100,
\* average_churn_risk 50.0, average_purchase_intent 25.0, total_cost_savings
\* of the rupee sign and 0.00, and high_value_percentage 0.
C16_FallbacksSummarised ==
    OnlyFallbacks =>
        /\ outcome = "returned"
        /\ response.status = 200
        /\ Len(results) = 3 =>
              /\ summary.sentiment_distribution["positive"] = 0
              /\ summary.sentiment_distribution["negative"] = 0
              /\ summary.sentiment_distribution["neutral"] = 10000
              /\ summary.average_churn_risk = 500
              /\ summary.average_purchase_intent = 250
              /\ summary.total_cost_savings = [sym |-> TRUE, num |-> TRUE, milli |-> 0]
              /\ summary.high_value_percentage = 0

C16_Witness ==
    /\ OnlyFallbacks
    /\ Len(results) = 3
    /\ outcome = "returned"
    /\ summary.total_messages = 3
    /\ summary.sentiment_distribution["neutral"] = 10000

\* the amount a cost_saved string reads as once the currency sign is taken
\* off, in thousandths; 0 for a string that does not read as a number
ReadAmount(c) == IF c.num = TRUE THEN c.milli ELSE 0

\* C17: total_cost_savings is the sum over all results of
\* cost_prediction.cost_saved read as a number after the currency sign is
\* stripped, written with the sign and two decimals; a result whose
\* cost_saved does not read as a number contributes 0 and neither aborts the
\* aggregation nor changes what any other result contributes.
C17_CostSavingsSum ==
    ( /\ endpoint = "calculate_summary"
      /\ pc = "done"
      /\ \A k \in 1..Len(results) : results[k].alert_level \in {"low", "medium", "high"} )
    =>  LET amounts == [k \in 1..Len(results) |->
                            ReadAmount(results[k].cost_prediction.cost_saved)]
            d == summary.total_cost_savings.milli - Sum(amounts)
        IN  /\ outcome = "returned"
            /\ summary.total_cost_savings.sym
            /\ summary.total_cost_savings.num
            /\ summary.total_cost_savings.milli % 10 = 0
            /\ d <= 5
            /\ 0 - d <= 5

\* 0.125 with the sign, "0.50 approx" and 0.88 without the sign: 1.00
C17_Witness ==
    /\ Summarized
    /\ endpoint = "calculate_summary"
    /\ Len(results) = 3
    /\ results[1].cost_prediction.cost_saved = [sym |-> TRUE, num |-> TRUE, milli |-> 125]
    /\ results[2].cost_prediction.cost_saved.num = FALSE
    /\ results[3].cost_prediction.cost_saved = [sym |-> FALSE, num |-> TRUE, milli |-> 880]
    /\ summary.total_cost_savings.milli = 1000

\* C18: for every list of results the dispatch can produce,
\* immediate_response_required is the number of results whose
\* response_prediction.best_response_time equals "immediate", and
\* customers_needing_retention is the number whose retention_action is not
\* "none".
C18_ImmediateAndRetentionCounts ==
    Summarized =>
        LET n == Len(response.results) IN
        /\ summary.immediate_response_required =
              Cardinality({k \in 1..n :
                response.results[k].response_prediction.best_response_time = "immediate"})
        /\ summary.customers_needing_retention =
              Cardinality({k \in 1..n : response.results[k].retention_action # "none"})

\* POST /aisensy/chat-analysis has answered with its flat body
ChatAnswered ==
    /\ endpoint = "aisensy_chat_analysis"
    /\ pc = "done"
    /\ response.status = 200

\* C19: POST /aisensy/chat-analysis returns alert_required true if and only
\* if the alert level of the analysis result is medium or high; a fallback
\* record yields alert_required true.
C19_AlertRequired ==
    ChatAnswered =>
        /\ response.body.alert_level = results[1].alert_level
        /\ response.body.alert_required =
              (results[1].alert_level = "medium" \/ results[1].alert_level = "high")
        /\ SingleFails(replies[1]) => response.body.alert_required = TRUE

\* the completion client raised: the body is built from the fallback record
C19_Witness ==
    /\ ChatAnswered
    /\ replies[1].kind = "raise"
    /\ results[1].alert_level = "medium"
    /\ response.body.alert_required = TRUE

\* ------------------------------------------------- bulk pre-processing
\* POST /analyze-bulk passed its validation and dispatched its messages
Dispatched == Bulk /\ log # <<>>

\* C20: before dispatch POST /analyze-bulk replaces a message longer than
\* 2000 characters by its first 2000 characters followed by an ellipsis
\* instead of rejecting it, leaves a message of at most 2000 characters
\* unchanged, fills in a missing timestamp and leaves a provided one
\* unchanged; customer_id, agent_id and the number and order of the messages
\* are never changed.
C20_BulkPreprocessing ==
    Dispatched =>
        /\ Len(messages) = Len(request)
        /\ response.status # 400
        /\ \A k \in 1..Len(request) :
              /\ messages[k].customer_id = request[k].customer_id
              /\ messages[k].agent_id = request[k].agent_id
              /\ messages[k].message.tag = request[k].message.tag
              /\ IF request[k].message.len > 2000
                 THEN /\ messages[k].message.cut = TRUE
                      /\ messages[k].message.len = 2000 + 3
                 ELSE messages[k].message = request[k].message
              /\ IF request[k].timestamp.some
                 THEN messages[k].timestamp = request[k].timestamp
                 ELSE messages[k].timestamp.some
        /\ log[1].prompt = "bulk" =>
              log[1].texts = [k \in 1..Len(request) |-> messages[k].message]

\* a batch whose second message is over the limit and has a timestamp, and
\* whose fourth is within the limit and has none
C20_Witness ==
    /\ Dispatched
    /\ Len(request) = 5
    /\ request[2].message.len = 2001
    /\ request[2].timestamp.some
    /\ messages[2].message.len = 2003
    /\ messages[2].timestamp = request[2].timestamp
    /\ ~request[4].timestamp.some
    /\ messages[4].timestamp.some
    /\ request[5].message.len = 2000
    /\ messages[5].message = request[5].message

\* ------------------------------------------------------ enum-typed fields
\* the sets the prompt templates declare for the enum-typed fields
RevenueRisks == {"safe", "at_risk", "high_risk", "critical"}
ValueTiers == {"low_value", "medium_value", "high_value", "vip"}
RetentionActions ==
    {"none", "follow_up", "discount_offer", "manager_call", "urgent_intervention"}
ResponseTimes == {"immediate", "within_1_hour", "within_24_hours"}
Likelihoods == {"low", "medium", "high"}
Categories == {"service", "utility", "marketing", "authentication"}

EnumsValid(r) ==
    /\ r.sentiment \in {"positive", "negative", "neutral"}
    /\ r.alert_level \in {"low", "medium", "high"}
    /\ r.revenue_risk \in RevenueRisks
    /\ r.customer_value_tier \in ValueTiers
    /\ r.retention_action \in RetentionActions
    /\ r.response_prediction.best_response_time \in ResponseTimes
    /\ r.response_prediction.resolution_likelihood \in Likelihoods
    /\ r.template_recommendation.primary_category \in Categories

\* C21: every enum-typed field of a returned record (sentiment, alert_level,
\* revenue_risk, customer_value_tier, retention_action, best_response_time,
\* resolution_likelihood, primary_category) holds a lower-case member of its
\* declared set: the reply's string is lower-cased before lookup, and a
\* value outside the set after lower-casing makes the record of that
\* message the fallback record.
C21_EnumFieldsValid ==
    /\ \A k \in 1..Len(response.results) : EnumsValid(response.results[k])
    /\ ( /\ SingleMessage
         /\ pc = "done"
         /\ replies # <<>>
         /\ replies[1].kind = "object"
         /\ replies[1].items # <<>>
         /\ replies[1].items[1].shape = "dict"
         /\ Lower(replies[1].items[1].alert_level) \notin {"low", "medium", "high"} )
       => IsFallbackFor(results[1], messages[1])

\* ------------------------------------------------------------- dispatch
\* completion requests issued and not yet returned or raised
Outstanding == Len(log) - Len(replies)

\* the bulk handler is blocked in a completion request
BulkWaiting == Bulk /\ pc \in {"combined_wait", "individual_wait"}

BulkEnded == Bulk /\ pc = "done"

C22_Sequential ==
    Dispatched =>
        LET first == IF log[1].prompt = "bulk" THEN 1 ELSE 0 IN
        /\ Outstanding \in {0, 1}
        /\ Outstanding = 1 <=> BulkWaiting
        /\ \A j \in (first + 1)..Len(log) :
              log[j] = [prompt |-> "single", texts |-> <<messages[j - first].message>>]
        /\ Len(log) <= N + 1
        /\ N > 8 => first = 0
        /\ BulkEnded =>
              /\ N > 8 => Len(log) = N
              /\ N <= 8 => Len(log) \in {1, N + 1}
              /\ (N <= 8 /\ Len(log) = 1) => outcome = "returned"

\* C22: provided every completion request eventually returns or raises,
\* every bulk dispatch over N messages terminates; within one request at
\* most one completion request is outstanding at any time, per-message
\* requests are issued in input order (request i+1 only after request i has
\* finished), and the number of completion requests is 1 (combined
\* success), N (N > 8) or N+1 (combined failure), never more.
C22_DispatchTerminates ==
    /\ []C22_Sequential
    /\ BulkWaiting ~> BulkEnded

\* a batch of three whose combined request failed: four requests, all ended
C22_Witness ==
    /\ BulkEnded
    /\ N = 3
    /\ Len(log) = 4
    /\ Len(replies) = 4
    /\ log[1].prompt = "bulk"
    /\ log[4].prompt = "single"

====
